---------------------------- MODULE Spec2Model ----------------------------
(***************************************************************************)
(* A model of script/kbeval-main-experiment.py: reference canonicalization *)
(* (Dataset.merge_ref), the name and type similarity functions, the        *)
(* redundancy filter (pred_redundant), evaluate, main and the batch loop.  *)
(*                                                                         *)
(* A string is a sequence of one-character strings; a float score is the   *)
(* exact fraction [n |-> numerator, d |-> denominator].                    *)
(***************************************************************************)
EXTENDS Integers, Sequences, FiniteSets, TLC

VARIABLES
    pc,                 \* the position of the running computation
    names,              \* MergedEntity.names of the entity under match_name
    pred_name,          \* the candidate string given to match_name
    match_result,       \* what match_name returned
    seq1, seq2,         \* the arguments of _jaccard_seq
    shift, best,        \* the locals of _jaccard_seq
    jaccard,            \* what _jaccard_seq returned
    entities,           \* Dataset.entities of the reference, a list of Entity
    relations,          \* Dataset.relations of the reference, a list of Relation
    equivalences,       \* Dataset.equivalences, a list of sets of ids
    ent_map,            \* _merge_ref_entities: key -> MergedEntity
    eqid_map,           \* _merge_ref_entities: id -> MergedEntity
    merged_entities,    \* the MergedEntity objects yielded so far, in order
    ent_id_map,         \* _merge_ref_relations: id -> MergedEntity
    rel_map,            \* _merge_ref_relations: the keys seen
    merged_relations,   \* the MergedRelation objects yielded so far, in order
    done_entities,      \* how many entities the loop of line 227 has taken
    done_relations,     \* how many relations the loop of line 247 has taken
    pred_relations,     \* Dataset.relations of the prediction
    type_sim, arg_sim,  \* the similarity functions given to evaluate
    redundant,          \* evaluate: the positions in pred_relations of line 316
    pred_rels,          \* evaluate: the positions in pred_relations of line 317
    weights,            \* get_pairs: the similarity of every reference and kept prediction
    pairs,              \* evaluate: the Pair objects of line 319
    document_list,      \* the batch loop: the documents
    model,              \* the batch loop: the position in model_list
    document,           \* the batch loop: the position in document_list
    repeat,             \* the batch loop: the repetition
    document_score_list,\* the batch loop: the scores of the document
    document_model_f1,  \* the batch loop: <<document, model>> -> median score
    save_file,          \* the lines written to save_file
    process,            \* running, finished, exited (exit(1)) or raised
    last_call           \* the last call of main: its files, outcome and score

name_vars == <<names, pred_name, match_result>>
seq_vars == <<seq1, seq2, shift, best, jaccard>>
input_vars == <<entities, relations, equivalences>>
merge_ent_vars == <<ent_map, eqid_map, merged_entities, done_entities>>
merge_rel_vars == <<ent_id_map, rel_map, merged_relations, done_relations>>
eval_in_vars == <<pred_relations, type_sim, arg_sim>>
eval_vars == <<redundant, pred_rels, weights, pairs>>
batch_vars == <<document_list, model, document, repeat, document_score_list,
                document_model_f1, save_file, process, last_call>>
other_vars ==
    <<input_vars, merge_ent_vars, merge_rel_vars, eval_in_vars, eval_vars, batch_vars>>
vars == <<pc, name_vars, seq_vars, other_vars>>

None == "None"

(***************************************************************************)
(* Bounds of the model.                                                    *)
(***************************************************************************)
MaxNameLen == 2
MaxNames == 2
MaxTokens == 3
MaxEnts == 3
MaxEqs == 2
MaxRelEnts == 2
MaxRelEqs == 1
MaxRels == 2
MaxRefRels == 2
MaxPredRels == 2
MaxDocs == 1

(***************************************************************************)
(* Small helpers.                                                          *)
(***************************************************************************)
Max(a, b) == IF a >= b THEN a ELSE b
Min(a, b) == IF a <= b THEN a ELSE b

SetMax(S) == CHOOSE x \in S : \A y \in S : y <= x

SeqsUpTo(S, lo, hi) == UNION {[1..k -> S] : k \in lo..hi}

Range(s) == {s[i] : i \in DOMAIN s}

\* Python's s[a:] for 0 <= a
DropFirst(s, a) == SubSeq(s, a + 1, Len(s))

\* Python's s[0:m]
Take(s, m) == SubSeq(s, 1, Min(m, Len(s)))

(***************************************************************************)
(* Characters and strings.                                                 *)
(***************************************************************************)
\* MergedEntity.QUOTES, each character written as its code point
QUOTES == {"u0022", "u0027", "u2018", "u2019", "u201c", "u201d", "u0060", "u00b4"}

\* the characters str.split() and the class \s take for white space, the
\* ones after the blank written as their code points
Whitespace == {" ", "u0009", "u000a", "u000d"}

UpperLetters ==
    <<"A", "B", "C", "D", "E", "F", "G", "H", "I", "J", "K", "L", "M",
      "N", "O", "P", "Q", "R", "S", "T", "U", "V", "W", "X", "Y", "Z">>
LowerLetters ==
    <<"a", "b", "c", "d", "e", "f", "g", "h", "i", "j", "k", "l", "m",
      "n", "o", "p", "q", "r", "s", "t", "u", "v", "w", "x", "y", "z">>

LowerOf == [i \in DOMAIN UpperLetters |-> LowerLetters[i]]
UpperIndex == [c \in Range(UpperLetters) |->
                CHOOSE i \in DOMAIN UpperLetters : UpperLetters[i] = c]

\* str.lower() on one character
LowerChar(c) == IF c \in DOMAIN UpperIndex THEN LowerOf[UpperIndex[c]] ELSE c

\* str.lower()
Lower(s) == [i \in DOMAIN s |-> LowerChar(s[i])]

\* the first lines of match_name and jaccard_name: pred_name[1:-1] when the
\* first and the last character are quotes (one character counts as both)
StripQuotes(s) ==
    IF s[1] \in QUOTES /\ s[Len(s)] \in QUOTES
    THEN SubSeq(s, 2, Len(s) - 1)
    ELSE s

\* MergedEntity.match_name with no case folding of the recorded names
MatchNameNoFold(ns, p) ==
    LET q == Lower(StripQuotes(p))
    IN \E n \in ns : n = q

\* MergedEntity.match_name, for a non-empty pred_name
MatchName(ns, p) ==
    LET q == Lower(StripQuotes(p))
    IN \E n \in ns : Lower(n) = q

(***************************************************************************)
(* MergedEntity._jaccard_seq.                                              *)
(***************************************************************************)
\* one pass of the loop over shift that forgets the guard m > best
JaccardSeqIterNoGuard(s1, s2, sh, b) ==
    LET start1 == Max(0, 0 - sh)
        start2 == Max(0, sh)
        sub1 == DropFirst(s1, start1)
        sub2 == DropFirst(s2, start2)
        m == Min(Len(sub1), Len(sub2))
    IN IF Take(sub1, m) = Take(sub2, m) THEN m ELSE b

\* one pass of the loop over shift: the new value of best
JaccardSeqIter(s1, s2, sh, b) ==
    LET start1 == Max(0, 0 - sh)
        start2 == Max(0, sh)
        sub1 == DropFirst(s1, start1)
        sub2 == DropFirst(s2, start2)
        m == Min(Len(sub1), Len(sub2))
    IN IF m > b /\ Take(sub1, m) = Take(sub2, m) THEN m ELSE b

\* float(best) / union; a result with d = 0 stands for the
\* ZeroDivisionError the division raises
JaccardSeqResult(s1, s2, b) ==
    LET union == Len(s1) + Len(s2) - b
    IN [n |-> b, d |-> union]

RECURSIVE JaccardSeqFrom(_, _, _, _)
JaccardSeqFrom(s1, s2, sh, b) ==
    IF sh >= Len(s2) THEN JaccardSeqResult(s1, s2, b)
    ELSE JaccardSeqFrom(s1, s2, sh + 1, JaccardSeqIter(s1, s2, sh, b))

\* _jaccard_seq as a function of its arguments
JaccardSeq(s1, s2) == JaccardSeqFrom(s1, s2, 1 - Len(s1), 0)

(***************************************************************************)
(* The inputs of the name functions.                                       *)
(***************************************************************************)
NameAlphabet == {"a", "A", "u0027", "u0060"}
NamePool == SeqsUpTo(NameAlphabet, 1, MaxNameLen)
CandidatePool == SeqsUpTo(NameAlphabet, 1, MaxNameLen + 2)

TokenAlphabet == {"a", "b", "c", "d"}
TokenSeqs == SeqsUpTo(TokenAlphabet, 0, MaxTokens)

NameIdle == names = {} /\ pred_name = <<>> /\ match_result = None
SeqIdle == seq1 = <<>> /\ seq2 = <<>> /\ shift = 0 /\ best = 0 /\ jaccard = None
InputIdle == entities = <<>> /\ relations = <<>> /\ equivalences = <<>>
MergeEntIdle ==
    /\ ent_map = <<>>
    /\ eqid_map = <<>>
    /\ merged_entities = <<>>
    /\ done_entities = 0
MergeRelIdle ==
    /\ ent_id_map = <<>>
    /\ rel_map = {}
    /\ merged_relations = <<>>
    /\ done_relations = 0
EvalInIdle == pred_relations = <<>> /\ type_sim = None /\ arg_sim = None
EvalIdle == redundant = {} /\ pred_rels = <<>> /\ weights = <<>> /\ pairs = <<>>
NoCall == [reference |-> None, prediction |-> None, outcome |-> None, score |-> None]
BatchIdle ==
    /\ document_list = <<>> /\ model = 0 /\ document = 0 /\ repeat = 0
    /\ document_score_list = <<>> /\ document_model_f1 = <<>> /\ save_file = <<>>
    /\ process = None /\ last_call = NoCall

(***************************************************************************)
(* match_name on one entity and one candidate.                             *)
(***************************************************************************)
InitName ==
    /\ pc = "start"
    /\ names \in {Range(ns) : ns \in SeqsUpTo(NamePool, 1, MaxNames)}
    /\ pred_name \in CandidatePool
    /\ match_result = None
    /\ SeqIdle /\ InputIdle /\ MergeEntIdle /\ MergeRelIdle /\ EvalInIdle /\ EvalIdle /\ BatchIdle

CallMatchName ==
    /\ pc = "start"
    /\ match_result' = MatchName(names, pred_name)
    /\ pc' = "matched"
    /\ UNCHANGED <<names, pred_name, seq_vars, other_vars>>

NextName == CallMatchName

SpecName == InitName /\ [][NextName]_vars

(***************************************************************************)
(* _jaccard_seq on two token sequences, one pass of its loop per step.     *)
(***************************************************************************)
InitSeq ==
    /\ pc = "start"
    /\ seq1 \in TokenSeqs
    /\ seq2 \in TokenSeqs
    /\ shift = 0
    /\ best = 0
    /\ jaccard = None
    /\ NameIdle /\ InputIdle /\ MergeEntIdle /\ MergeRelIdle /\ EvalInIdle /\ EvalIdle /\ BatchIdle

JaccardSeqEnter ==
    /\ pc = "start"
    /\ shift' = 1 - Len(seq1)
    /\ best' = 0
    /\ pc' = "shift"
    /\ UNCHANGED <<seq1, seq2, jaccard, name_vars, other_vars>>

JaccardSeqStep ==
    /\ pc = "shift"
    /\ shift < Len(seq2)
    /\ best' = JaccardSeqIter(seq1, seq2, shift, best)
    /\ shift' = shift + 1
    /\ UNCHANGED <<pc, seq1, seq2, jaccard, name_vars, other_vars>>

JaccardSeqReturn ==
    /\ pc = "shift"
    /\ shift >= Len(seq2)
    /\ jaccard' = JaccardSeqResult(seq1, seq2, best)
    /\ pc' = "returned"
    /\ UNCHANGED <<seq1, seq2, shift, best, name_vars, other_vars>>

NextSeq == JaccardSeqEnter \/ JaccardSeqStep \/ JaccardSeqReturn

SpecSeq == InitSeq /\ [][NextSeq]_vars

(***************************************************************************)
(* Entity, MergedEntity, Relation, MergedRelation.                         *)
(***************************************************************************)
NORM_TYPES == <<"NCBI_Taxonomy", "GeoNames", "OntoBiotope", "name">>

\* dict[k] = v
Put(d, k, v) == [x \in DOMAIN d \cup {k} |-> IF x = k THEN v ELSE d[x]]

\* Entity.__init__: the first normalization kind of NORM_TYPES that the
\* record holds; every record holds "name"
Entity(args) ==
    LET i == CHOOSE k \in DOMAIN NORM_TYPES :
                /\ NORM_TYPES[k] \in DOMAIN args
                /\ \A l \in 1..(k - 1) : NORM_TYPES[l] \notin DOMAIN args
        nt == NORM_TYPES[i]
    IN [id_ |-> args.id,
        type_ |-> args.type,
        name |-> args.name,
        normalization_type |-> nt,
        normalization_value |-> args[nt],
        key |-> <<args.type, nt, args[nt]>>]

\* MergedEntity.__init__
MergedEntity(ent) ==
    [type_ |-> ent.type_,
     ids |-> {ent.id_},
     names |-> {ent.name},
     normalization_type |-> ent.normalization_type,
     normalization_value |-> ent.normalization_value,
     key |-> ent.key]

\* MergedEntity.add
Add(me, ent) ==
    [me EXCEPT !.ids = @ \cup {ent.id_}, !.names = @ \cup {ent.name}]

\* Relation.__init__ on a record {type, source, target}
Relation(args) ==
    [type_ |-> args.type, source |-> args.source, target |-> args.target]

(***************************************************************************)
(* Dataset._merge_ref_entities, one entity of the loop per step.           *)
(* ent_map and eqid_map hold the position of the MergedEntity in            *)
(* merged_entities, which stands for the reference to the object.          *)
(***************************************************************************)
\* lines 234-237: every id of every equivalence set that holds id_
EquivalentIds(eqs, id_) ==
    UNION {eqs[k] : k \in {l \in DOMAIN eqs : id_ \in eqs[l]}}

\* lines 234-237: eqid_map[id_] = me for every such id
RegisterEquivalences(eqid, eqs, id_, me) ==
    [x \in DOMAIN eqid \cup EquivalentIds(eqs, id_) |->
        IF x \in EquivalentIds(eqs, id_) THEN me ELSE eqid[x]]

MergeRefEntitiesStep ==
    /\ pc = "merge_entities"
    /\ done_entities < Len(entities)
    /\ LET ent == entities[done_entities + 1]
       IN \/ /\ ent.key \in DOMAIN ent_map
             /\ merged_entities' =
                    [merged_entities EXCEPT ![ent_map[ent.key]] = Add(@, ent)]
             /\ UNCHANGED <<ent_map, eqid_map>>
          \/ /\ ent.key \notin DOMAIN ent_map
             /\ ent.id_ \in DOMAIN eqid_map
             /\ merged_entities' =
                    [merged_entities EXCEPT ![eqid_map[ent.id_]] = Add(@, ent)]
             /\ UNCHANGED <<ent_map, eqid_map>>
          \/ /\ ent.key \notin DOMAIN ent_map
             /\ ent.id_ \notin DOMAIN eqid_map
             /\ LET me == Len(merged_entities) + 1
                IN /\ merged_entities' = Append(merged_entities, MergedEntity(ent))
                   /\ eqid_map' =
                        RegisterEquivalences(eqid_map, equivalences, ent.id_, me)
                   /\ ent_map' = Put(ent_map, ent.key, me)
    /\ done_entities' = done_entities + 1
    /\ UNCHANGED <<pc, input_vars, merge_rel_vars, name_vars, seq_vars, batch_vars, eval_in_vars, eval_vars>>

\* line 220: the generator is exhausted and list() returns
MergeRefEntitiesReturn ==
    /\ pc = "merge_entities"
    /\ done_entities = Len(entities)
    /\ pc' = "merged_entities"
    /\ UNCHANGED <<input_vars, merge_ent_vars, merge_rel_vars, name_vars, seq_vars, batch_vars,
                   eval_in_vars, eval_vars>>

(***************************************************************************)
(* The reference datasets the entity merge is run on: entity i has id i.   *)
(***************************************************************************)
Str_a == <<"a">>
Str_A == <<"A">>
Str_562 == <<"5", "6", "2">>
Str_1280 == <<"1", "2", "8", "0">>

EntityArgs(i) ==
    {[id |-> i, type |-> "Microorganism", name |-> nm] :
        nm \in {Str_a, Str_A}}
    \cup
    {[id |-> i, type |-> "Microorganism", name |-> nm, NCBI_Taxonomy |-> v] :
        nm \in {Str_a, Str_A}, v \in {Str_562, Str_1280}}

EntityLists(maxn) ==
    UNION {{es \in [1..k -> UNION {{Entity(a) : a \in EntityArgs(i)} : i \in 1..k}] :
                \A i \in 1..k : es[i].id_ = i} : k \in 1..maxn}

EquivalenceSets(maxid) == {eq \in SUBSET (1..maxid) : Cardinality(eq) >= 2}

InitEnt ==
    /\ pc = "merge_entities"
    /\ entities \in EntityLists(MaxEnts)
    /\ relations = <<>>
    /\ equivalences \in SeqsUpTo(EquivalenceSets(MaxEnts), 0, MaxEqs)
    /\ MergeEntIdle /\ MergeRelIdle /\ NameIdle /\ SeqIdle /\ EvalInIdle /\ EvalIdle /\ BatchIdle

NextEnt == MergeRefEntitiesStep \/ MergeRefEntitiesReturn

SpecEnt == InitEnt /\ [][NextEnt]_vars

(***************************************************************************)
(* Fractions, for the float scores.                                        *)
(***************************************************************************)
RECURSIVE GCD(_, _)
GCD(a, b) == IF b = 0 THEN a ELSE GCD(b, a % b)

\* n / d in lowest terms, d > 0
Rat(n, d) == [n |-> n \div GCD(n, d), d |-> d \div GCD(n, d)]

Zero == Rat(0, 1)
One == Rat(1, 1)

RatMul(x, y) == Rat(x.n * y.n, x.d * y.d)
RatAdd(x, y) == Rat(x.n * y.d + y.n * x.d, x.d * y.d)
RatLeq(x, y) == x.n * y.d <= y.n * x.d
RatMax(S) == CHOOSE x \in S : \A y \in S : RatLeq(y, x)

(***************************************************************************)
(* MergedRelation and the similarity functions.                            *)
(***************************************************************************)
Str_Cause == <<"C", "a", "u", "s", "e">>
Str_Causes == <<"C", "a", "u", "s", "e", "s">>
Str_Affect == <<"A", "f", "f", "e", "c", "t">>
Str_Affects == <<"A", "f", "f", "e", "c", "t", "s">>
Str_Transmit == <<"T", "r", "a", "n", "s", "m", "i", "t">>
Str_Transmits == <<"T", "r", "a", "n", "s", "m", "i", "t", "s">>
Str_Have_been_found_on ==
    <<"H", "a", "v", "e", " ", "b", "e", "e", "n", " ",
      "f", "o", "u", "n", "d", " ", "o", "n">>
Str_Has_been_found_on ==
    <<"H", "a", "s", " ", "b", "e", "e", "n", " ",
      "f", "o", "u", "n", "d", " ", "o", "n">>

\* MergedRelation.TYPEMAP
TYPEMAP ==
    (Str_Cause :> Str_Causes) @@ (Str_Affect :> Str_Affects) @@
    (Str_Have_been_found_on :> Str_Has_been_found_on) @@
    (Str_Transmit :> Str_Transmits)

\* MergedRelation.JUNK_CHARS_IN_TYPE.sub('', s)
RemoveJunk(s) == SelectSeq(s, LAMBDA c : c \notin Whitespace \cup {"_"})

\* MergedRelation._normalize_type
NormalizeType(t) ==
    Lower(RemoveJunk(IF t \in DOMAIN TYPEMAP THEN TYPEMAP[t] ELSE t))

\* MergedRelation.match_type
MatchType(ref_type, pred_type) == NormalizeType(ref_type) = NormalizeType(pred_type)

\* str.split(): the maximal runs of characters that are not white space
RECURSIVE SplitFrom(_, _, _)
SplitFrom(s, i, word) ==
    IF i > Len(s) THEN (IF word = <<>> THEN <<>> ELSE <<word>>)
    ELSE IF s[i] \in Whitespace
         THEN (IF word = <<>> THEN <<>> ELSE <<word>>) \o SplitFrom(s, i + 1, <<>>)
         ELSE SplitFrom(s, i + 1, Append(word, s[i]))

Split(s) == SplitFrom(s, 1, <<>>)

\* MergedEntity.jaccard_name, for a non-empty pred_name; d = 0 when
\* _jaccard_seq raises
JaccardName(ns, p) ==
    LET pred_tokens == Split(Lower(StripQuotes(p)))
        scores == {JaccardSeq(Split(Lower(n)), pred_tokens) : n \in ns}
    IN IF \E x \in scores : x.d = 0 THEN [n |-> 0, d |-> 0]
       ELSE RatMax({Rat(x.n, x.d) : x \in scores})

\* standard_type_similarity, relaxed_type_similarity
TypeSimilarity(mode, ref_type, pred_type) ==
    IF MatchType(ref_type, pred_type) THEN One
    ELSE IF mode = "standard" THEN Zero ELSE Rat(9, 10)

\* standard_arg_similarity, relaxed_arg_similarity on the names of an entity
ArgSimilarity(mode, ns, name) ==
    IF mode = "standard"
    THEN (IF MatchName(ns, name) THEN One ELSE Zero)
    ELSE JaccardName(ns, name)

\* relation_similarity(type_sim, arg_sim)(ref, pred); ref.source and
\* ref.target are positions in merged_entities
RelationSimilarity(tmode, amode, ref, pred) ==
    RatMul(RatMul(TypeSimilarity(tmode, ref.type_, pred.type_),
                  ArgSimilarity(amode, merged_entities[ref.source].names, pred.source)),
           ArgSimilarity(amode, merged_entities[ref.target].names, pred.target))

(***************************************************************************)
(* Dataset._merge_ref_relations, one relation of the loop per step.        *)
(***************************************************************************)
\* lines 242-245: a later MergedEntity overwrites an earlier one
EntIdMap(mes) ==
    [id_ \in UNION {mes[k].ids : k \in DOMAIN mes} |->
        SetMax({k \in DOMAIN mes : id_ \in mes[k].ids})]

\* Relation.key
RelationKey(rel, id_map, mes) ==
    <<rel.type_, mes[id_map[rel.source]].key, mes[id_map[rel.target]].key>>

\* MergedRelation.__init__
MergedRelation(id_map, rel) ==
    [type_ |-> rel.type_, source |-> id_map[rel.source], target |-> id_map[rel.target]]

MergeRefRelationsEnter ==
    /\ pc = "merged_entities"
    /\ ent_id_map' = EntIdMap(merged_entities)
    /\ rel_map' = {}
    /\ pc' = "merge_relations"
    /\ UNCHANGED <<input_vars, merge_ent_vars, merged_relations, done_relations,
                   name_vars, seq_vars, batch_vars, eval_in_vars, eval_vars>>

MergeRefRelationsStep ==
    /\ pc = "merge_relations"
    /\ done_relations < Len(relations)
    /\ LET rel == relations[done_relations + 1]
           key == RelationKey(rel, ent_id_map, merged_entities)
       IN IF key \notin rel_map
          THEN /\ rel_map' = rel_map \cup {key}
               /\ merged_relations' =
                    Append(merged_relations, MergedRelation(ent_id_map, rel))
          ELSE UNCHANGED <<rel_map, merged_relations>>
    /\ done_relations' = done_relations + 1
    /\ UNCHANGED <<pc, input_vars, merge_ent_vars, ent_id_map,
                   name_vars, seq_vars, batch_vars, eval_in_vars, eval_vars>>

\* lines 221-222: the generator is exhausted, merge_ref returns the dataset
MergeRefRelationsReturn ==
    /\ pc = "merge_relations"
    /\ done_relations = Len(relations)
    /\ pc' = "merged"
    /\ UNCHANGED <<input_vars, merge_ent_vars, merge_rel_vars,
                   name_vars, seq_vars, batch_vars, eval_in_vars, eval_vars>>

(***************************************************************************)
(* pred_redundant and evaluate.  A predicted relation is named by its      *)
(* position in pred_relations: Relation defines no __eq__, so the set of    *)
(* line 316 holds objects.                                                 *)
(***************************************************************************)
Perfect(ref, pred) == RelationSimilarity("standard", "standard", ref, pred) = One

\* the inner loop of pred_redundant from position i on
RECURSIVE RedundantFor(_, _, _, _)
RedundantFor(r, preds, i, found) ==
    IF i > Len(preds) THEN {}
    ELSE IF Perfect(r, preds[i])
         THEN (IF found THEN {i} ELSE {}) \cup RedundantFor(r, preds, i + 1, TRUE)
         ELSE RedundantFor(r, preds, i + 1, found)

\* set(pred_redundant(ref, pred))
PredRedundant(refs, preds) ==
    UNION {RedundantFor(refs[k], preds, 1, FALSE) : k \in DOMAIN refs}

\* line 317 without the filter
KeptPredictionsAll(preds, red) == [i \in DOMAIN preds |-> i]

\* line 317: the predictions that are not redundant, in order
KeptPredictions(preds, red) ==
    SelectSeq([i \in DOMAIN preds |-> i], LAMBDA i : i \notin red)

\* line 318 with the standard similarity whatever evaluate was given
PairingSimilarityStandard(tmode, amode, ref, pred) ==
    RelationSimilarity("standard", "standard", ref, pred)

\* line 318: the similarity given to MunkresPairing
PairingSimilarity(tmode, amode, ref, pred) ==
    RelationSimilarity(tmode, amode, ref, pred)

(***************************************************************************)
(* MunkresPairing.get_pairs, which is not among the source files: a        *)
(* one-to-one matching of maximal total similarity, then one Pair per      *)
(* reference relation and one per prediction left without a partner.       *)
(***************************************************************************)
\* the side of a Pair that holds no relation
Absent == 0

\* m[i] is the position in kept of the partner of reference i, 0 for none
Matchings(nref, nkept) ==
    {m \in [1..nref -> 0..nkept] :
        \A i, j \in 1..nref : (i # j /\ m[i] # 0) => m[i] # m[j]}

RECURSIVE TotalFrom(_, _, _, _)
TotalFrom(m, w, nref, i) ==
    IF i > nref THEN Zero
    ELSE RatAdd(IF m[i] = 0 THEN Zero ELSE w[i, m[i]],
                TotalFrom(m, w, nref, i + 1))

\* the total similarity of matching m under the weights w
Total(m, w, nref) == TotalFrom(m, w, nref, 1)

OptimalMatchings(w, nref, nkept) ==
    LET ms == Matchings(nref, nkept)
        most == RatMax({Total(m, w, nref) : m \in ms})
    IN {m \in ms : Total(m, w, nref) = most}

\* the predictions of kept that matching m leaves without a partner
Unmatched(m, nref, kept) ==
    SelectSeq(kept, LAMBDA j : \A i \in 1..nref : m[i] = 0 \/ kept[m[i]] # j)

\* the Pair objects of a matching: ref and pred are positions in
\* merged_relations and pred_relations, Absent for a side that is None
GetPairs(m, w, nref, kept) ==
    [i \in 1..nref |->
        IF m[i] = 0
        THEN [ref |-> i, pred |-> Absent, score |-> Zero]
        ELSE [ref |-> i, pred |-> kept[m[i]], score |-> w[i, m[i]]]]
    \o
    [k \in DOMAIN Unmatched(m, nref, kept) |->
        [ref |-> Absent, pred |-> Unmatched(m, nref, kept)[k], score |-> Zero]]

\* BaseScores: a pair is a true positive when both sides are present and
\* the similarity is 1.0; a reference that is no true positive is a false
\* negative, a prediction that is none a false positive
BaseScores(ps) ==
    LET tp == {k \in DOMAIN ps :
                ps[k].ref # Absent /\ ps[k].pred # Absent /\ ps[k].score = One}
    IN [tp |-> Cardinality(tp),
        fn |-> Cardinality({k \in DOMAIN ps \ tp : ps[k].ref # Absent}),
        fp |-> Cardinality({k \in DOMAIN ps \ tp : ps[k].pred # Absent})]

\* evaluate, lines 316-317
EvaluateFilter ==
    /\ pc = "merged"
    /\ redundant' = PredRedundant(merged_relations, pred_relations)
    /\ pred_rels' = KeptPredictions(pred_relations, redundant')
    /\ pc' = "pairing"
    /\ UNCHANGED <<input_vars, merge_ent_vars, merge_rel_vars,
                   name_vars, seq_vars, batch_vars, eval_in_vars, weights, pairs>>

\* evaluate, lines 318-319: get_pairs fills its matrix of similarities
EvaluateWeights ==
    /\ pc = "pairing"
    /\ weights' = [i \in DOMAIN merged_relations, j \in DOMAIN pred_rels |->
                    PairingSimilarity(type_sim, arg_sim, merged_relations[i],
                                      pred_relations[pred_rels[j]])]
    /\ pc' = "assignment"
    /\ UNCHANGED <<input_vars, merge_ent_vars, merge_rel_vars,
                   name_vars, seq_vars, batch_vars, eval_in_vars, redundant, pred_rels, pairs>>

\* evaluate, line 319: get_pairs solves the assignment and yields the pairs
EvaluatePairs ==
    /\ pc = "assignment"
    /\ \E m \in OptimalMatchings(weights, Len(merged_relations), Len(pred_rels)) :
            pairs' = GetPairs(m, weights, Len(merged_relations), pred_rels)
    /\ pc' = "evaluated"
    /\ UNCHANGED <<input_vars, merge_ent_vars, merge_rel_vars,
                   name_vars, seq_vars, batch_vars, eval_in_vars, redundant, pred_rels, weights>>

(***************************************************************************)
(* merge_ref on a reference dataset, then evaluate against a copy of the   *)
(* dataset whose relations name their arguments by surface name.           *)
(***************************************************************************)
RefTypes == {Str_Cause, Str_Causes, Str_Affects}

RelationArgs(n) ==
    {[type |-> t, source |-> src, target |-> tgt] :
        t \in RefTypes, src \in 1..n, tgt \in 1..n}

\* the name of the entity with the given id
NameOfId(es, id_) == es[CHOOSE i \in DOMAIN es : es[i].id_ = id_].name

IdentityCopy(es, rels) ==
    [i \in DOMAIN rels |->
        [type_ |-> rels[i].type_,
         source |-> NameOfId(es, rels[i].source),
         target |-> NameOfId(es, rels[i].target)]]

InitRel ==
    /\ pc = "merge_entities"
    /\ entities \in EntityLists(MaxRelEnts)
    /\ equivalences \in SeqsUpTo(EquivalenceSets(Len(entities)), 0, MaxRelEqs)
    /\ relations \in SeqsUpTo({Relation(a) : a \in RelationArgs(Len(entities))},
                              0, MaxRels)
    /\ pred_relations = IdentityCopy(entities, relations)
    /\ type_sim = "standard"
    /\ arg_sim = "standard"
    /\ MergeEntIdle /\ MergeRelIdle /\ NameIdle /\ SeqIdle /\ EvalIdle /\ BatchIdle

NextRel ==
    \/ MergeRefEntitiesStep
    \/ MergeRefEntitiesReturn
    \/ MergeRefRelationsEnter
    \/ MergeRefRelationsStep
    \/ MergeRefRelationsReturn
    \/ EvaluateFilter
    \/ EvaluateWeights
    \/ EvaluatePairs

SpecRel == InitRel /\ [][NextRel]_vars

(***************************************************************************)
(* evaluate on a canonical reference dataset and a predicted dataset.      *)
(* The canonical datasets are ones merge_ref returns: entities with         *)
(* different keys, relations with different keys.                          *)
(***************************************************************************)
Str_a_b == <<"a", " ", "b">>
EvalPredNames == {Str_A, Str_a_b}
EvalRefTypes == {Str_Cause, Str_Affects}
EvalPredTypes == {Str_Causes, Str_Affects}

\* the MergedEntity of the raw entities 10k+1, 10k+2, ... with the taxon v,
\* one raw entity for each name of ns
CanonicalEntity(k, v, ns) ==
    [type_ |-> "Microorganism",
     ids |-> {10 * k + j : j \in 1..Cardinality(ns)},
     names |-> ns,
     normalization_type |-> "NCBI_Taxonomy",
     normalization_value |-> v,
     key |-> <<"Microorganism", "NCBI_Taxonomy", v>>]

\* two entities: the first is named "a" or "a" and "a b", the second "a" or
\* "a b"
CanonicalEntityLists ==
    {<<CanonicalEntity(1, Str_562, ns1), CanonicalEntity(2, Str_1280, ns2)>> :
        ns1 \in {{Str_a}, {Str_a, Str_a_b}}, ns2 \in {{Str_a}, {Str_a_b}}}

\* relations from one entity to the other
CanonicalRelations ==
    {[type_ |-> t, source |-> st[1], target |-> st[2]] :
        t \in EvalRefTypes, st \in {<<1, 2>>, <<2, 1>>}}

PredictedRelations ==
    {[type_ |-> t, source |-> src, target |-> tgt] :
        t \in EvalPredTypes, src \in EvalPredNames, tgt \in EvalPredNames}

InitEval ==
    /\ pc = "merged"
    /\ merged_entities \in CanonicalEntityLists
    /\ merged_relations \in
        {rs \in SeqsUpTo(CanonicalRelations, 0, MaxRefRels) :
            \A i, j \in DOMAIN rs : i # j => rs[i] # rs[j]}
    /\ pred_relations \in SeqsUpTo(PredictedRelations, 0, MaxPredRels)
    /\ type_sim \in {"standard", "relaxed"}
    /\ arg_sim \in {"standard", "relaxed"}
    /\ InputIdle
    /\ ent_map = <<>> /\ eqid_map = <<>> /\ done_entities = 0
    /\ ent_id_map = <<>> /\ rel_map = {} /\ done_relations = 0
    /\ NameIdle /\ SeqIdle /\ EvalIdle /\ BatchIdle

NextEval == EvaluateFilter \/ EvaluateWeights \/ EvaluatePairs

SpecEval == InitEval /\ [][NextEval]_vars

(***************************************************************************)
(* Dataset.from_json_file, main and the batch loop.  A file is named by    *)
(* what reading it does: it is missing, its text is no JSON after the      *)
(* repairs, its JSON is not of the expected structure, or it is fine.  The *)
(* score evaluate computes for a prediction that is fine is any of         *)
(* ScorePool.                                                              *)
(***************************************************************************)
repeat_num == 5
model_list == <<"gpt-4o-mini", "kimi", "deepseek", "qwen3">>
ReferenceFiles == {"missing", "ok"}
PredictionFiles == {"missing", "malformed", "badstruct", "ok"}
ScorePool == {Zero, Rat(1, 2), One}
Str_0_0 == <<"0", ".", "0">>

\* Dataset.from_json_file: exit(1) at line 194, the empty Dataset of line
\* 201, an unhandled KeyError or AttributeError of lines 203-208, or the
\* Dataset of line 216
FromJsonFile(file) ==
    CASE file = "missing" -> "exited"
      [] file = "malformed" -> "empty"
      [] file = "badstruct" -> "raised"
      [] OTHER -> "dataset"

\* main(ref_fn, pred_fn); f_score is what evaluate computes when both
\* datasets are loaded.  With no predicted relation the score is 0.0, by
\* the return of line 338 or by the handler of line 342.
Main(ref_fn, pred_fn, f_score) ==
    IF FromJsonFile(ref_fn) \in {"exited", "raised"}
    THEN [outcome |-> FromJsonFile(ref_fn), score |-> Zero]
    ELSE IF FromJsonFile(pred_fn) \in {"exited", "raised"}
    THEN [outcome |-> FromJsonFile(pred_fn), score |-> Zero]
    ELSE IF FromJsonFile(pred_fn) = "empty"
    THEN [outcome |-> "returned", score |-> Zero]
    ELSE [outcome |-> "returned", score |-> f_score]

\* list.sort() on scores
RECURSIVE Insert(_, _)
Insert(x, sorted) ==
    IF sorted = <<>> THEN <<x>>
    ELSE IF RatLeq(x, Head(sorted)) THEN <<x>> \o sorted
    ELSE <<Head(sorted)>> \o Insert(x, Tail(sorted))

RECURSIVE Sort(_)
Sort(xs) == IF xs = <<>> THEN <<>> ELSE Insert(Head(xs), Sort(Tail(xs)))

\* lines 377-383: one call of main in the loop over the repetitions
BatchMain ==
    /\ pc = "main"
    /\ \E ref_fn \in ReferenceFiles, pred_fn \in PredictionFiles, f_score \in ScorePool :
        LET res == Main(ref_fn, pred_fn, f_score)
        IN /\ last_call' = [reference |-> ref_fn, prediction |-> pred_fn,
                            outcome |-> res.outcome, score |-> res.score]
           /\ IF res.outcome = "returned"
              THEN /\ document_score_list' = Append(document_score_list, res.score)
                   /\ repeat' = repeat + 1
                   /\ pc' = IF repeat = repeat_num THEN "median" ELSE "main"
                   /\ UNCHANGED process
              ELSE /\ process' = res.outcome
                   /\ pc' = "stopped"
                   /\ UNCHANGED <<document_score_list, repeat>>
    /\ UNCHANGED <<document_list, model, document, document_model_f1, save_file,
                   name_vars, seq_vars, input_vars, merge_ent_vars, merge_rel_vars,
                   eval_in_vars, eval_vars>>

\* lines 385-388, then the next document or the next model
BatchMedian ==
    /\ pc = "median"
    /\ LET document_med_score == Sort(document_score_list)[(repeat_num \div 2) + 1]
       IN document_model_f1' =
            (<<document, model>> :>
                (IF document_med_score # Zero THEN document_med_score ELSE Str_0_0))
            @@ document_model_f1
    /\ document_score_list' = <<>>
    /\ repeat' = 1
    /\ IF document < Len(document_list)
       THEN document' = document + 1 /\ UNCHANGED model /\ pc' = "main"
       ELSE IF model < Len(model_list)
            THEN document' = 1 /\ model' = model + 1 /\ pc' = "main"
            ELSE UNCHANGED <<document, model>> /\ pc' = "save"
    /\ UNCHANGED <<document_list, save_file, process, last_call,
                   name_vars, seq_vars, input_vars, merge_ent_vars, merge_rel_vars,
                   eval_in_vars, eval_vars>>

\* lines 390-400: the header, then one line per document
BatchSave ==
    /\ pc = "save"
    /\ save_file' =
        <<<<"">> \o model_list>> \o
        [d \in DOMAIN document_list |->
            <<document_list[d]>> \o
            [m \in DOMAIN model_list |-> document_model_f1[<<d, m>>]]]
    /\ process' = "finished"
    /\ pc' = "saved"
    /\ UNCHANGED <<document_list, model, document, repeat, document_score_list,
                   document_model_f1, last_call,
                   name_vars, seq_vars, input_vars, merge_ent_vars, merge_rel_vars,
                   eval_in_vars, eval_vars>>

InitBatch ==
    /\ document_list \in {[d \in 1..n |-> d] : n \in 0..MaxDocs}
    /\ pc = IF document_list = <<>> THEN "save" ELSE "main"
    /\ model = 1 /\ document = 1 /\ repeat = 1
    /\ document_score_list = <<>> /\ document_model_f1 = <<>> /\ save_file = <<>>
    /\ process = "running" /\ last_call = NoCall
    /\ NameIdle /\ SeqIdle /\ InputIdle /\ MergeEntIdle /\ MergeRelIdle
    /\ EvalInIdle /\ EvalIdle

NextBatch == BatchMain \/ BatchMedian \/ BatchSave

SpecBatch == InitBatch /\ [][NextBatch]_vars

(***************************************************************************)
(* C9: strict name matching.                                               *)
(***************************************************************************)
\* x and y are the same character or the two cases of one letter
SameLetter(x, y) ==
    \/ x = y
    \/ \E i \in DOMAIN UpperLetters : {x, y} = {UpperLetters[i], LowerLetters[i]}

\* c differs from n in letter case only
IsCaseVariant(c, n) ==
    /\ Len(c) = Len(n)
    /\ \A i \in DOMAIN n : SameLetter(c[i], n[i])

\* c is v between one leading and one trailing quote character
IsWrapped(c, v) ==
    /\ Len(c) = Len(v) + 2
    /\ c[1] \in QUOTES
    /\ c[Len(c)] \in QUOTES
    /\ SubSeq(c, 2, Len(c) - 1) = v

\* c differs from n only in letter case and/or by being wrapped in quotes
IsVariant(c, n) ==
    \/ IsCaseVariant(c, n)
    \/ /\ Len(c) = Len(n) + 2
       /\ IsWrapped(c, SubSeq(c, 2, Len(c) - 1))
       /\ IsCaseVariant(SubSeq(c, 2, Len(c) - 1), n)

\* the recorded name n itself begins and ends with a quote character
QuoteDelimited(n) == n[1] \in QUOTES /\ n[Len(n)] \in QUOTES

\* C9 as stated: match_name returns true for every non-empty candidate that
\* differs from a recorded surface name only in letter case and/or by one
\* leading and one trailing quote character.
C9_MatchesEveryVariant ==
    (pc = "matched" /\ \E n \in names : IsVariant(pred_name, n))
        => match_result = TRUE

\* C9 as amended: match_name returns true for every non-empty candidate that
\* differs only in letter case and/or by one leading and one trailing quote
\* character from a recorded surface name that does not itself both begin
\* and end with a quote character.
C9_MatchesVariantOfUnquotedName ==
    (pc = "matched"
        /\ \E n \in names : ~QuoteDelimited(n) /\ IsVariant(pred_name, n))
        => match_result = TRUE

\* C9: a candidate in another case between two different quote characters
\* has been matched.
C9_Witness ==
    /\ pc = "matched"
    /\ match_result = TRUE
    /\ \E n \in names :
        /\ ~QuoteDelimited(n)
        /\ Lower(n) # n
        /\ pred_name[1] # pred_name[Len(pred_name)]
        /\ IsWrapped(pred_name, Lower(n))

(***************************************************************************)
(* C3, C4: the entity merge.                                               *)
(***************************************************************************)
\* the positions in merged_entities of the MergedEntity objects that hold id_
ClustersOf(id_) == {k \in DOMAIN merged_entities : id_ \in merged_entities[k].ids}

\* the raw entities that are members of the k-th MergedEntity
Members(k) == {i \in DOMAIN entities : entities[i].id_ \in merged_entities[k].ids}

\* C3: when an equivalence set holds the ids of two entities with different
\* identity keys, canonicalization puts both in the same MergedEntity,
\* whatever the order of the entities, the other entities and the other
\* equivalence sets.
C3_EquivalentEntitiesMerge ==
    pc = "merged_entities" =>
        \A q \in DOMAIN equivalences : \A i, j \in DOMAIN entities :
            (/\ entities[i].id_ \in equivalences[q]
             /\ entities[j].id_ \in equivalences[q]
             /\ entities[i].key # entities[j].key)
            => ClustersOf(entities[i].id_) \cap ClustersOf(entities[j].id_) # {}

\* C4, first part: every raw entity id is in the id set of exactly one
\* MergedEntity.
C4_EveryIdInOneCluster ==
    pc = "merged_entities" =>
        \A i \in DOMAIN entities : Cardinality(ClustersOf(entities[i].id_)) = 1

\* C4, second part: two raw entities with the same identity key are in the
\* same MergedEntity.
C4_SameKeySameCluster ==
    pc = "merged_entities" =>
        \A i, j \in DOMAIN entities :
            entities[i].key = entities[j].key
            => ClustersOf(entities[i].id_) = ClustersOf(entities[j].id_)

\* C4, third part: the names of a MergedEntity are the surface names of its
\* members.
C4_NamesOfMembers ==
    pc = "merged_entities" =>
        \A k \in DOMAIN merged_entities :
            merged_entities[k].names = {entities[i].name : i \in Members(k)}

\* C4, fourth part: the key of a MergedEntity is the key of its first member.
C4_KeyOfFirstMember ==
    pc = "merged_entities" =>
        \A k \in DOMAIN merged_entities :
            /\ Members(k) # {}
            /\ merged_entities[k].key =
                entities[CHOOSE i \in Members(k) : \A j \in Members(k) : i <= j].key

\* C4: after merge_ref on a dataset with unique ids, every raw entity id is
\* in exactly one MergedEntity, two raw entities with the same identity key
\* are in the same MergedEntity, the names of a MergedEntity are the surface
\* names of its members and its key is the key of its first member.
C4_MergePartitions ==
    /\ C4_EveryIdInOneCluster
    /\ C4_SameKeySameCluster
    /\ C4_NamesOfMembers
    /\ C4_KeyOfFirstMember

(***************************************************************************)
(* C5: the token-alignment score.                                          *)
(***************************************************************************)
Shifts(s1, s2) == (1 - Len(s1))..(Len(s2) - 1)

\* the number of positions at which s1 and s2 overlap when s2 is moved by sh
OverlapLen(s1, s2, sh) ==
    Min(Len(s1) - Max(0, 0 - sh), Len(s2) - Max(0, sh))

\* the k-th aligned pair of tokens is equal
AlignedEqual(s1, s2, sh, k) == s1[Max(0, 0 - sh) + k] = s2[Max(0, sh) + k]

\* the run of equal tokens from the start of the overlap
MatchRun(s1, s2, sh) ==
    SetMax({r \in 0..OverlapLen(s1, s2, sh) :
                \A k \in 1..r : AlignedEqual(s1, s2, sh, k)})

MaxMatchRun(s1, s2) ==
    SetMax({0} \cup {MatchRun(s1, s2, sh) : sh \in Shifts(s1, s2)})

\* the longest overlap on which the two sequences agree at every position
MaxWholeOverlap(s1, s2) ==
    SetMax({0} \cup {OverlapLen(s1, s2, sh) : sh \in
        {t \in Shifts(s1, s2) :
            \A k \in 1..OverlapLen(s1, s2, t) : AlignedEqual(s1, s2, t, k)}})

\* C5 as stated: for non-empty s1 and s2 the score is M / (n1 + n2 - M), M the
\* largest, over the shifts in [1-n1, n2-1], run of equal tokens from the
\* start of the overlap.
C5_ScoreIsBestMatchRun ==
    (pc = "returned" /\ seq1 # <<>> /\ seq2 # <<>>)
        => jaccard = [n |-> MaxMatchRun(seq1, seq2),
                      d |-> Len(seq1) + Len(seq2) - MaxMatchRun(seq1, seq2)]

\* C5 as amended: for non-empty s1 and s2 the score is M / (n1 + n2 - M), M
\* the largest, over the shifts in [1-n1, n2-1], overlap length
\* min(n1 - start1, n2 - start2) at which the two sequences agree on the
\* whole overlap, and 0 when they agree at no shift.
C5_ScoreIsBestWholeOverlap ==
    (pc = "returned" /\ seq1 # <<>> /\ seq2 # <<>>)
        => jaccard = [n |-> MaxWholeOverlap(seq1, seq2),
                      d |-> Len(seq1) + Len(seq2) - MaxWholeOverlap(seq1, seq2)]

\* C5: [a,b,c] against [b,c,d] has returned 2/4.
C5_Witness ==
    /\ pc = "returned"
    /\ seq1 = <<"a", "b", "c">>
    /\ seq2 = <<"b", "c", "d">>
    /\ jaccard = [n |-> 2, d |-> 4]

(***************************************************************************)
(* C10, C1: the relation merge, and evaluate on a copy of the reference.   *)
(***************************************************************************)
\* the structural key of raw relation i, its type normalized
NormalizedKeyOfRaw(i) ==
    <<NormalizeType(relations[i].type_),
      merged_entities[ent_id_map[relations[i].source]].key,
      merged_entities[ent_id_map[relations[i].target]].key>>

\* the structural key of the k-th canonical relation, its type normalized
NormalizedKeyOfMerged(k) ==
    <<NormalizeType(merged_relations[k].type_),
      merged_entities[merged_relations[k].source].key,
      merged_entities[merged_relations[k].target].key>>

\* the first raw relation, in input order, with the structural key of raw
\* relation i
FirstWithKeyOf(i) ==
    CHOOSE j \in DOMAIN relations :
        /\ NormalizedKeyOfRaw(j) = NormalizedKeyOfRaw(i)
        /\ \A l \in 1..(j - 1) : NormalizedKeyOfRaw(l) # NormalizedKeyOfRaw(i)

\* C10: after canonicalization no two canonical relations have the same
\* normalized type, source key and target key, and the canonical relations
\* are, in order, the first raw relations of each such key
C10_DedupOnNormalizedKey ==
    pc = "merged" =>
        /\ \A k, l \in DOMAIN merged_relations :
                k # l => NormalizedKeyOfMerged(k) # NormalizedKeyOfMerged(l)
        /\ merged_relations =
                [k \in DOMAIN merged_relations |->
                    MergedRelation(ent_id_map,
                        relations[SelectSeq([i \in DOMAIN relations |-> i],
                                            LAMBDA i : FirstWithKeyOf(i) = i)[k]])]

\* C1: a non-empty reference evaluated against its copy under the strict
\* similarities has precision, recall and F1 1.0: every pair is a true
\* positive, there is no false positive and no false negative
C1_IdentityScoresOne ==
    (pc = "evaluated" /\ relations # <<>>) =>
        /\ BaseScores(pairs).tp > 0
        /\ BaseScores(pairs).fp = 0
        /\ BaseScores(pairs).fn = 0

(***************************************************************************)
(* C2, C8, C7: the redundancy filter and the pairs of evaluate.            *)
(***************************************************************************)
\* the predictions whose strict similarity to reference r is 1.0
PerfectFor(r) ==
    {i \in DOMAIN pred_relations : Perfect(merged_relations[r], pred_relations[i])}

\* prediction i is a later perfect match: it and an earlier prediction are
\* perfect matches of one reference
LaterPerfect(i) ==
    \E r \in DOMAIN merged_relations :
        i \in PerfectFor(r) /\ \E j \in PerfectFor(r) : j < i

\* the predictions passed to the pairing
Kept == Range(pred_rels)

\* C2: for each reference with a perfect match, the first perfect match is
\* kept, every later one is excluded, and exactly one perfect match is among
\* the predictions passed to the pairing
C2_FirstPerfectKept ==
    pc = "pairing" =>
        \A r \in DOMAIN merged_relations :
            PerfectFor(r) # {} =>
                /\ \A i \in PerfectFor(r) :
                        i \in Kept <=> (\A j \in PerfectFor(r) : i <= j)
                /\ Cardinality(PerfectFor(r) \cap Kept) = 1

PairsOfRef(r) == {k \in DOMAIN pairs : pairs[k].ref = r}
PairsOfPred(i) == {k \in DOMAIN pairs : pairs[k].pred = i}

\* a Pair holds a relation, and a Pair with an absent side has score 0
OneSidedPairsScoreZero ==
    \A k \in DOMAIN pairs :
        /\ pairs[k].ref # Absent \/ pairs[k].pred # Absent
        /\ (pairs[k].ref = Absent \/ pairs[k].pred = Absent) => pairs[k].score = Zero

\* C8 as stated: every canonical reference relation and every predicted
\* relation of the predicted Dataset is in exactly one Pair, and a Pair
\* with an absent side has score 0
C8_EveryRelationInOnePair ==
    pc = "evaluated" =>
        /\ \A r \in DOMAIN merged_relations : Cardinality(PairsOfRef(r)) = 1
        /\ \A i \in DOMAIN pred_relations : Cardinality(PairsOfPred(i)) = 1
        /\ OneSidedPairsScoreZero

\* C8: every canonical reference relation and every predicted relation that
\* is no later perfect match is in exactly one Pair, a later perfect match
\* is in no Pair, and a Pair with an absent side has score 0
C8_EveryKeptRelationInOnePair ==
    pc = "evaluated" =>
        /\ \A r \in DOMAIN merged_relations : Cardinality(PairsOfRef(r)) = 1
        /\ \A i \in DOMAIN pred_relations :
                Cardinality(PairsOfPred(i)) = (IF LaterPerfect(i) THEN 0 ELSE 1)
        /\ OneSidedPairsScoreZero

\* a later perfect match was dropped, one reference has a partner and
\* another has none
C8_Witness ==
    /\ pc = "evaluated"
    /\ \E i \in DOMAIN pred_relations : LaterPerfect(i)
    /\ \E k \in DOMAIN pairs : pairs[k].ref # Absent /\ pairs[k].pred # Absent
    /\ \E k \in DOMAIN pairs : pairs[k].ref # Absent /\ pairs[k].pred = Absent

\* the positions of the predictions that are no later perfect match, in order
Filtered == SelectSeq([i \in DOMAIN pred_relations |-> i], LAMBDA i : ~LaterPerfect(i))

\* the pairs with both sides present
Matched == {k \in DOMAIN pairs : pairs[k].ref # Absent /\ pairs[k].pred # Absent}

RECURSIVE SumScores(_)
SumScores(ks) ==
    IF ks = {} THEN Zero
    ELSE LET k == CHOOSE k \in ks : TRUE
         IN RatAdd(pairs[k].score, SumScores(ks \ {k}))

\* the one-to-one matchings of nr references and np predictions, as sets of
\* <<reference, position of the prediction>>
OneToOne(nr, np) ==
    {m \in SUBSET ((1..nr) \X (1..np)) :
        \A a, b \in m : a # b => (a[1] # b[1] /\ a[2] # b[2])}

RECURSIVE SumWeights(_)
SumWeights(m) ==
    IF m = {} THEN Zero
    ELSE LET a == CHOOSE a \in m : TRUE
         IN RatAdd(weights[a[1], a[2]], SumWeights(m \ {a}))

RECURSIVE GreedyFirstMatch(_, _)
GreedyFirstMatch(i, used) ==
    IF i > Len(merged_relations) THEN Zero
    ELSE LET free == {j \in DOMAIN pred_rels \ used : weights[i, j] # Zero}
         IN IF free = {} THEN GreedyFirstMatch(i + 1, used)
            ELSE LET j == CHOOSE j \in free : \A l \in free : j <= l
                 IN RatAdd(weights[i, j], GreedyFirstMatch(i + 1, used \cup {j}))

C6_PredictionNeverStopsBatch ==
    last_call.reference = "ok" =>
        /\ last_call.outcome = "returned"
        /\ process \in {"running", "finished"}
        /\ last_call.prediction # "ok" => last_call.score = Zero

=============================================================================
